---- MODULE Spec2Model ----
(***************************************************************************)
(* sailing_robot/gps_utils.py: the UBX codec (UBXMessage.serialise,        *)
(* ubx_checksum) and the stream demultiplexer UbxNmeaParser, which splits  *)
(* an interleaved NMEA / UBX byte stream into units.  Bytes are the        *)
(* integers 0..255, byte strings are sequences of them.                    *)
(***************************************************************************)
EXTENDS Integers, Sequences, FiniteSets, TLC

VARIABLES
    source,   \* the bytes the byte source has not delivered yet
    fed,      \* history: every chunk passed to feed so far, concatenated
    buf,      \* UbxNmeaParser.buf
    taken,    \* history: the spans _take_chunk removed, in removal order
    yielded,  \* history: the values the get_msgs iteration handed to its caller
    last,     \* the parser operation that ran last, and how it ended
    msg_id,   \* UBXMessage.msg_id
    payload,  \* UBXMessage.payload
    wire,     \* the value serialise returned
    msg,      \* the byte string a caller passes to ubx_checksum
    checksum  \* the value ubx_checksum returned for it

demuxVars == <<source, fed, buf, taken, yielded, last>>
codecVars == <<msg_id, payload, wire, msg, checksum>>
vars == <<source, fed, buf, taken, yielded, last,
          msg_id, payload, wire, msg, checksum>>

(***************************************************************************)
(* Bounds of the model.                                                    *)
(***************************************************************************)
MaxRaw == 4        \* longest stream drawn from every string over Alphabet
MaxNoise == 1      \* longest noise span of a composed stream
MaxBody == 1       \* longest NMEA sentence body of a composed stream
MaxPayload == 2    \* longest UBX payload
MaxMsgLen == 3     \* longest argument of a direct ubx_checksum call

(***************************************************************************)
(* Byte values the code names.                                             *)
(***************************************************************************)
DOLLAR == 36       \* b'$'
CR == 13           \* b'\r'
LF == 10           \* b'\n'
SYNC1 == 181       \* b'\xb5'
SYNC2 == 98        \* b'b'

Byte == 0..255

(***************************************************************************)
(* Python's bytes operations, as the code uses them.                       *)
(***************************************************************************)
Min(S) == CHOOSE x \in S : \A y \in S : x <= y

\* b[:n] for 0 <= n
Take(b, n) == SubSeq(b, 1, IF n < Len(b) THEN n ELSE Len(b))

\* b[n:] for 0 <= n
Drop(b, n) == SubSeq(b, (IF n < Len(b) THEN n ELSE Len(b)) + 1, Len(b))

\* b[i:j] for 0 <= i <= j
Slice(b, i, j) == Take(Drop(b, i), j - i)

\* b.find(sub): the lowest 0-based offset at which sub occurs in b, or -1
Find(b, sub) ==
    LET hits == {i \in 0..(Len(b) - Len(sub)) : SubSeq(b, i + 1, i + Len(sub)) = sub}
    IN  IF hits = {} THEN -1 ELSE Min(hits)

\* x & y on non-negative integers, bit by bit
RECURSIVE BitAnd(_, _)
BitAnd(x, y) ==
    IF x = 0 \/ y = 0 THEN 0
    ELSE (x % 2) * (y % 2) + 2 * BitAnd(x \div 2, y \div 2)

\* struct.pack('<H', n), defined for 0 <= n <= 65535
PackH(n) == <<n % 256, (n \div 256) % 256>>

\* struct.unpack('<H', b)[0] for a 2-byte b
UnpackH(b) == b[1] + 256 * b[2]

\* struct.pack('BB', a, b)
PackBB(a, b) == <<a, b>>

\* iter_ints(b): the bytes of b as integers, in order
iter_ints(b) == [k \in 1..Len(b) |-> b[k]]

(***************************************************************************)
(* UBX codec.                                                              *)
(***************************************************************************)
\* mutant of ChecksumStep: b sums the bytes, not the running values of a
ChecksumStep_b_sums_bytes(ab, c) ==
    LET a == BitAnd(ab[1] + c, 255)
        b == BitAnd(ab[2] + c, 255)
    IN  <<a, b>>

\* one pass of the loop body of ubx_checksum on the accumulators ab = <<a, b>>
ChecksumStep(ab, c) ==
    LET a == BitAnd(ab[1] + c, 255)
        b == BitAnd(ab[2] + a, 255)
    IN  <<a, b>>

\* The loop of ubx_checksum over bytes lo..hi of m (1-based, in order),
\* entered with the accumulators ab.  The range is split in two and the
\* accumulators of the first half are computed (the test on their length,
\* which is always 2) before the second half is entered: the evaluation of a
\* long string then nests only as deep as the number of halvings.
RECURSIVE ChecksumLoop(_, _, _, _)
ChecksumLoop(m, lo, hi, ab) ==
    IF lo > hi THEN ab
    ELSE IF lo = hi THEN ChecksumStep(ab, m[lo])
    ELSE LET mid == (lo + hi) \div 2
             half == ChecksumLoop(m, lo, mid, ab)
         IN  IF Len(half) = 2 THEN ChecksumLoop(m, mid + 1, hi, half) ELSE half

\* the accumulators of ubx_checksum(m) after the first k bytes of m
ChecksumAcc(m, k) == ChecksumLoop(iter_ints(m), 1, k, <<0, 0>>)

ubx_checksum(m) ==
    LET ab == ChecksumAcc(m, Len(m))
    IN  PackBB(ab[1], ab[2])

\* mutant of serialise: the checksum covers the sync bytes too
serialise_sums_sync(id, pl) ==
    LET msg_body == id \o PackH(Len(pl)) \o pl
        cksum == ubx_checksum(<<181, 98>> \o msg_body)
    IN  <<181, 98>> \o msg_body \o cksum \o <<16, 19>>

serialise(id, pl) ==
    LET msg_body == id \o PackH(Len(pl)) \o pl
        cksum == ubx_checksum(msg_body)
    IN  <<181, 98>> \o msg_body \o cksum \o <<16, 19>>

(***************************************************************************)
(* Stream demultiplexer.  Each method is an operator from the buffer b it  *)
(* finds to the outcome [kind, c, buf]: the branch that ran ("none" is the *)
(* method returning None), the chunk _take_chunk removed for it, and the   *)
(* buffer it leaves.                                                       *)
(***************************************************************************)
\* mutant of take_chunk: drops one byte more than the chunk it returns
take_chunk_drops_extra(b, n) == [c |-> Take(b, n), buf |-> Drop(b, n + 1)]

\* mutant of take_chunk: returns the chunk and leaves it in the buffer
take_chunk_keeps(b, n) == [c |-> Take(b, n), buf |-> b]

take_chunk(b, n) == [c |-> Take(b, n), buf |-> Drop(b, n)]

\* a method returning None without calling _take_chunk
NotReady(b) == [kind |-> "none", c |-> <<>>, buf |-> b]

\* a method returning on branch `kind` what _take_chunk(n) gives it
Taking(kind, b, n) ==
    LET t == take_chunk(b, n)
    IN  [kind |-> kind, c |-> t.c, buf |-> t.buf]

\* mutant of take_nmea: takes the sentence up to the CR, leaving the LF
take_nmea_keeps_lf(b) ==
    LET crlf_ix == Find(b, <<CR, LF>>)
    IN  IF crlf_ix = -1 THEN NotReady(b)
        ELSE Taking("nmea", b, crlf_ix + 1)

\* mutant of take_nmea: decodes the sentence without removing it
take_nmea_peeks(b) ==
    LET crlf_ix == Find(b, <<CR, LF>>)
    IN  IF crlf_ix = -1 THEN NotReady(b)
        ELSE [kind |-> "nmea", c |-> Take(b, crlf_ix + 2), buf |-> b]

\* mutant of take_nmea: takes the sentence up to the last CR LF buffered
take_nmea_to_last_crlf(b) ==
    LET ends == {i \in 0..(Len(b) - 2) : b[i + 1] = CR /\ b[i + 2] = LF}
    IN  IF ends = {} THEN NotReady(b)
        ELSE Taking("nmea", b, 2 - Min({-i : i \in ends}))

take_nmea(b) ==
    LET crlf_ix == Find(b, <<CR, LF>>)
    IN  IF crlf_ix = -1 THEN NotReady(b)
        ELSE Taking("nmea", b, crlf_ix + 2)

\* mutant of take_ubx: leaves the two checksum bytes out of the frame
take_ubx_short(b) ==
    IF Len(b) < 6 THEN NotReady(b)
    ELSE LET payload_length == UnpackH(Slice(b, 4, 6))
             msg_length == payload_length + 6
         IN  IF Len(b) >= msg_length
             THEN Taking("ubx", b, msg_length)
             ELSE NotReady(b)

\* mutant of take_ubx: removes the header to read it, then finds the frame
\* incomplete and returns None
take_ubx_eats_header(b) ==
    IF Len(b) < 6 THEN NotReady(b)
    ELSE LET payload_length == UnpackH(Slice(b, 4, 6))
             msg_length == payload_length + 8
         IN  IF Len(b) >= msg_length
             THEN Taking("ubx", b, msg_length)
             ELSE [kind |-> "none", c |-> <<>>, buf |-> Drop(b, 6)]

\* mutant of take_ubx: counts the two trailer bytes serialise() appends as
\* part of the frame
take_ubx_takes_trailer(b) ==
    IF Len(b) < 6 THEN NotReady(b)
    ELSE LET payload_length == UnpackH(Slice(b, 4, 6))
             msg_length == payload_length + 10
         IN  IF Len(b) >= msg_length
             THEN Taking("ubx", b, msg_length)
             ELSE NotReady(b)

\* mutant of take_ubx: waits for one byte more than the frame needs
take_ubx_waits_extra(b) ==
    IF Len(b) < 6 THEN NotReady(b)
    ELSE LET payload_length == UnpackH(Slice(b, 4, 6))
             msg_length == payload_length + 8
         IN  IF Len(b) > msg_length
             THEN Taking("ubx", b, msg_length)
             ELSE NotReady(b)

take_ubx(b) ==
    IF Len(b) < 6 THEN NotReady(b)
    ELSE LET payload_length == UnpackH(Slice(b, 4, 6))
             msg_length == payload_length + 8
         IN  IF Len(b) >= msg_length
             THEN Taking("ubx", b, msg_length)
             ELSE NotReady(b)

\* mutant of next_msg: a non-empty buffer holding no marker is discarded as
\* noise instead of being kept until more bytes arrive
next_msg_flushes_noise(b) ==
    LET nmea_start == Find(b, <<DOLLAR>>)
        ubx_start == Find(b, <<SYNC1, SYNC2>>)
    IN  IF nmea_start = 0 THEN take_nmea(b)
        ELSE IF ubx_start = 0 THEN take_ubx(b)
        ELSE IF nmea_start > 0 /\ ubx_start > 0
             THEN Taking("skip", b, Min({nmea_start, ubx_start}))
        ELSE IF nmea_start > 0 THEN Taking("skip", b, nmea_start)
        ELSE IF ubx_start > 0 THEN Taking("skip", b, ubx_start)
        ELSE IF b # <<>> THEN Taking("skip", b, Len(b))
        ELSE NotReady(b)

\* mutant of next_msg: with both markers ahead, skips to the later one
next_msg_skips_to_later(b) ==
    LET nmea_start == Find(b, <<DOLLAR>>)
        ubx_start == Find(b, <<SYNC1, SYNC2>>)
    IN  IF nmea_start = 0 THEN take_nmea(b)
        ELSE IF ubx_start = 0 THEN take_ubx(b)
        ELSE IF nmea_start > 0 /\ ubx_start > 0
             THEN Taking("skip", b, -Min({-nmea_start, -ubx_start}))
        ELSE IF nmea_start > 0 THEN Taking("skip", b, nmea_start)
        ELSE IF ubx_start > 0 THEN Taking("skip", b, ubx_start)
        ELSE NotReady(b)

\* mutant of next_msg: when the frame at the front is incomplete and a '$'
\* is buffered behind it, gives the frame up and skips to the '$'
next_msg_resyncs(b) ==
    LET nmea_start == Find(b, <<DOLLAR>>)
        ubx_start == Find(b, <<SYNC1, SYNC2>>)
    IN  IF nmea_start = 0 THEN take_nmea(b)
        ELSE IF ubx_start = 0
             THEN IF take_ubx(b).kind = "none" /\ nmea_start > 0
                  THEN Taking("skip", b, nmea_start)
                  ELSE take_ubx(b)
        ELSE IF nmea_start > 0 /\ ubx_start > 0
             THEN Taking("skip", b, Min({nmea_start, ubx_start}))
        ELSE IF nmea_start > 0 THEN Taking("skip", b, nmea_start)
        ELSE IF ubx_start > 0 THEN Taking("skip", b, ubx_start)
        ELSE NotReady(b)

next_msg(b) ==
    LET nmea_start == Find(b, <<DOLLAR>>)
        ubx_start == Find(b, <<SYNC1, SYNC2>>)
    IN  IF nmea_start = 0 THEN take_nmea(b)
        ELSE IF ubx_start = 0 THEN take_ubx(b)
        ELSE IF nmea_start > 0 /\ ubx_start > 0
             THEN Taking("skip", b, Min({nmea_start, ubx_start}))
        ELSE IF nmea_start > 0 THEN Taking("skip", b, nmea_start)
        ELSE IF ubx_start > 0 THEN Taking("skip", b, ubx_start)
        ELSE NotReady(b)

\* The value _next_msg returns for outcome r: None, the sentence the
\* decoder built from the chunk on the NMEA branch, the chunk itself on the
\* UBX branch and on the three skip branches.
None == [tag |-> "None", raw |-> <<>>]

ReturnValue(r) ==
    IF r.kind = "none" THEN None
    ELSE IF r.kind = "nmea" THEN [tag |-> "NMEASentence", raw |-> r.c]
    ELSE [tag |-> "bytes", raw |-> r.c]

\* iter(self._next_msg, None): a returned value ends the iteration when it
\* equals the sentinel None, and is handed to the caller otherwise
IterEnds(v) == v = None

(***************************************************************************)
(* The streams the byte source may hold.                                   *)
(***************************************************************************)
SeqsUpTo(S, n) == UNION {[1..k -> S] : k \in 0..n}

Alphabet == {DOLLAR, CR, LF, SYNC1, SYNC2, 0}
NoiseBytes == {0, SYNC1}
BodyBytes == {71}
PayloadBytes == {DOLLAR, 171}
CodecPayloadBytes == {DOLLAR, 171, 205}
MsgIds == {<<6, 1>>}

RawStreams == SeqsUpTo(Alphabet, MaxRaw)
NoiseSpans == SeqsUpTo(NoiseBytes, MaxNoise) \ {<<>>}
Sentences == {<<DOLLAR>> \o s \o <<CR, LF>> : s \in SeqsUpTo(BodyBytes, MaxBody)}
Payloads == SeqsUpTo(PayloadBytes, MaxPayload)
\* one payload long enough to need the high byte of the length field
LongPayload == [k \in 1..300 |-> 171]
\* a frame as the receiver sends it: serialise's output without the trailer
Frame(id, pl) == Take(serialise(id, pl), Len(pl) + 8)
Frames == {Frame(id, pl) : id \in MsgIds, pl \in Payloads}
Serialised == {serialise(id, pl) : id \in MsgIds, pl \in Payloads}
LongFrames == {Frame(id, LongPayload) : id \in MsgIds}
LongSerialised == {serialise(id, LongPayload) : id \in MsgIds}

\* the header of a frame that declares a 20-byte payload
OpenHeader == <<SYNC1, SYNC2, 6, 1, 20, 0>>
\* an incomplete frame with complete sentences arriving behind it
FrameThenSentences ==
    {OpenHeader \o s1 \o s2 : s1 \in Sentences, s2 \in Sentences \cup {<<>>}}
\* a sentence that never gets its CR LF with a complete frame behind it
SentenceThenFrame ==
    {<<DOLLAR>> \o s \o u : s \in SeqsUpTo(BodyBytes, MaxBody), u \in Frames}

Pieces == NoiseSpans \cup Sentences \cup Frames \cup Serialised
PairStreams == {p \o q : p \in Pieces, q \in Pieces}
ScenarioStreams ==
    {n1 \o s \o n2 \o u : n1 \in NoiseSpans, s \in Sentences,
                          n2 \in NoiseSpans, u \in Frames}

Streams ==
    RawStreams \cup Pieces \cup PairStreams \cup ScenarioStreams \cup LongFrames
        \cup LongSerialised \cup FrameThenSentences \cup SentenceThenFrame

Msgs == SeqsUpTo({0, 1, 2, 3, 255}, MaxMsgLen)

(***************************************************************************)
(* Initial states.                                                         *)
(***************************************************************************)
DemuxIdle ==
    /\ fed = <<>>
    /\ buf = <<>>
    /\ taken = <<>>
    /\ yielded = <<>>
    /\ last = [op |-> "init", kind |-> "-", out |-> "-"]

\* UbxNmeaParser.__init__, in front of a byte source holding some stream
Init ==
    /\ source \in Streams
    /\ DemuxIdle
    /\ msg_id = <<>>
    /\ payload = <<>>
    /\ msg = <<>>
    /\ wire = <<>>
    /\ checksum = <<>>

\* UBXMessage.__init__, and a byte string a caller is about to checksum
InitCodec ==
    /\ source = <<>>
    /\ DemuxIdle
    /\ msg_id \in MsgIds
    /\ payload \in SeqsUpTo(CodecPayloadBytes, MaxPayload) \cup {LongPayload}
    /\ msg \in Msgs
    /\ wire = <<>>
    /\ checksum = <<>>

(***************************************************************************)
(* Demultiplexer operations.                                               *)
(***************************************************************************)
\* the stream offset just past the last span removed
Consumed ==
    IF taken = <<>> THEN 0
    ELSE taken[Len(taken)].pos + Len(taken[Len(taken)].data)

\* feed(data), with data the next n bytes of the byte source
FeedBytes(n) ==
    /\ buf' = buf \o Take(source, n)
    /\ fed' = fed \o Take(source, n)
    /\ source' = Drop(source, n)
    /\ last' = [op |-> "feed", kind |-> "-", out |-> "-"]
    /\ UNCHANGED <<taken, yielded>>
    /\ UNCHANGED codecVars

\* the byte source delivers a non-empty chunk of any size
Feed == \E n \in 1..Len(source) : FeedBytes(n)

\* the byte source delivers everything it holds as one chunk
FeedWhole == source # <<>> /\ FeedBytes(Len(source))

\* One next() on the iterator get_msgs returned: one call of _next_msg.
\* NMEASentence.parse is the external decoder: it returns a sentence or it
\* raises, after _take_chunk has removed the bytes.
NextMsg ==
    LET r == next_msg(buf)
    IN  /\ buf' = r.buf
        /\ \E parsed \in IF r.kind = "nmea" THEN BOOLEAN ELSE {TRUE} :
              LET out == IF ~parsed THEN "raise"
                         ELSE IF IterEnds(ReturnValue(r)) THEN "end"
                         ELSE "yield"
              IN  /\ last' = [op |-> "next", kind |-> r.kind, out |-> out]
                  /\ taken' = IF r.kind = "none" THEN taken
                              ELSE Append(taken, [kind |-> r.kind, data |-> r.c,
                                                  pos |-> Consumed, out |-> out])
                  /\ yielded' = IF out = "yield"
                                THEN Append(yielded, ReturnValue(r))
                                ELSE yielded
        /\ UNCHANGED <<source, fed>>
        /\ UNCHANGED codecVars

(***************************************************************************)
(* Codec operations.                                                       *)
(***************************************************************************)
\* UBXMessage.serialise()
Serialise ==
    /\ wire' = serialise(msg_id, payload)
    /\ UNCHANGED <<msg_id, payload, msg, checksum>>
    /\ UNCHANGED demuxVars

\* ubx_checksum(msg)
Checksum ==
    /\ checksum' = ubx_checksum(msg)
    /\ UNCHANGED <<msg_id, payload, msg, wire>>
    /\ UNCHANGED demuxVars

(***************************************************************************)
(* Specifications.                                                         *)
(***************************************************************************)
Next == Feed \/ NextMsg

NextSingleChunk == FeedWhole \/ NextMsg

NextCodec == Serialise \/ Checksum

\* the parser fed in chunks of any size, detection steps at any time
Spec == Init /\ [][Next]_vars

\* the parser fed its whole stream as one single chunk
SpecSingleChunk == Init /\ [][NextSingleChunk]_vars

\* the codec on one message and one byte string
SpecCodec == InitCodec /\ [][NextCodec]_vars

(***************************************************************************)
(* Properties.                                                             *)
(***************************************************************************)
\* the whole stream: what was fed, then what the byte source still holds
Stream == fed \o source

\* the get_msgs iteration has run to its end since the last feed
Drained == last.op = "next" /\ last.kind = "none"

\* the decoder has accepted every sentence handed to it so far
NoDecodeFailure == \A i \in DOMAIN taken : taken[i].out # "raise"

\* C1: get_msgs yields only decoded NMEA sentences (from bytes starting with
\* '$') and raw UBX frames starting with 0xB5 0x62; a span removed by a skip
\* branch is never handed to the caller.
C1_OnlyNmeaAndUbxYielded ==
    /\ \A i \in DOMAIN yielded :
          \/ yielded[i].tag = "NMEASentence" /\ Take(yielded[i].raw, 1) = <<DOLLAR>>
          \/ yielded[i].tag = "bytes" /\ Take(yielded[i].raw, 2) = <<SYNC1, SYNC2>>
    /\ \A i \in DOMAIN taken : taken[i].kind = "skip" => taken[i].out # "yield"

\* C2: noise, an NMEA sentence, noise and a UBX frame fed as one single chunk
\* and drained give exactly the sentence and then the frame, and an empty
\* buffer.
C2_NoiseSilentlyDropped ==
    \A n1 \in NoiseSpans, s \in Sentences, n2 \in NoiseSpans, u \in Frames :
        (fed = n1 \o s \o n2 \o u /\ source = <<>> /\ Drained /\ NoDecodeFailure)
        => /\ yielded = << [tag |-> "NMEASentence", raw |-> s],
                           [tag |-> "bytes", raw |-> u] >>
           /\ buf = <<>>

\* a well-formed sentence: '$' first, a single CR LF, at the very end
WellFormedSentence(s) ==
    /\ Len(s) >= 3
    /\ s[1] = DOLLAR
    /\ Find(s, <<CR, LF>>) = Len(s) - 2

\* C3: while a well-formed sentence is fed in chunks, nothing is removed or
\* yielded before its final LF is fed; the first detection step after that
\* removes the whole sentence and hands it to the decoder, the iteration
\* yields the one decoded sentence (nothing when the decoder rejects it), and
\* the buffer is empty.
C3_ChunkedSentence ==
    WellFormedSentence(Stream) =>
        /\ source # <<>> => (taken = <<>> /\ yielded = <<>> /\ buf = fed)
        /\ (source = <<>> /\ last.op = "next") =>
              /\ Len(taken) = 1
              /\ taken[1].kind = "nmea" /\ taken[1].data = Stream /\ taken[1].pos = 0
              /\ yielded = IF taken[1].out = "yield"
                           THEN << [tag |-> "NMEASentence", raw |-> Stream] >>
                           ELSE <<>>
              /\ buf = <<>>

C3_Witness ==
    /\ WellFormedSentence(Stream)
    /\ Len(Stream) >= 4
    /\ source = <<>>
    /\ Drained
    /\ yielded = << [tag |-> "NMEASentence", raw |-> Stream] >>

\* a stream that is one UBX frame: the sync bytes first, and as long as its
\* length field says (payload length + 8)
OneUbxFrame(s) ==
    /\ Len(s) >= 8
    /\ s[1] = 181 /\ s[2] = 98
    /\ Len(s) = s[5] + 256 * s[6] + 8

\* C4: while a UBX frame of declared payload length L is fed in chunks,
\* nothing is removed or yielded as long as fewer than L + 8 bytes are
\* buffered; the first detection step after the last byte yields the frame,
\* all L + 8 bytes of it, and only it.
C4_ChunkedUbxFrame ==
    OneUbxFrame(Stream) =>
        /\ source # <<>> => (taken = <<>> /\ yielded = <<>> /\ buf = fed)
        /\ (source = <<>> /\ last.op = "next") =>
              /\ yielded = << [tag |-> "bytes", raw |-> Stream] >>
              /\ Len(yielded[1].raw) = Stream[5] + 256 * Stream[6] + 8
              /\ Len(taken) = 1 /\ taken[1].kind = "ubx"
              /\ buf = <<>>

C4_Witness ==
    /\ OneUbxFrame(Stream)
    /\ Stream[6] = 1
    /\ source = <<>>
    /\ Drained
    /\ yielded = << [tag |-> "bytes", raw |-> Stream] >>

\* C5: a detection step that reports "not ready" leaves the buffer (and what
\* was removed and yielded so far) exactly as it was, and the buffer it
\* leaves makes the next detection step report "not ready" again.
C5_NotReadyLeavesBuffer ==
    [][ (last'.op = "next" /\ last'.kind = "none")
        => /\ buf' = buf
           /\ taken' = taken
           /\ yielded' = yielded
           /\ next_msg(buf').kind = "none" ]_vars

C5_Witness ==
    /\ Drained
    /\ Len(buf) >= 6
    /\ Take(buf, 2) = <<SYNC1, SYNC2>>

\* the end offset of the i-th removed span
SpanEnd(i) == taken[i].pos + Len(taken[i].data)

\* the i-th removed span is the bytes of the stream at its offsets
IsStreamSpan(i) ==
    /\ Len(taken[i].data) >= 1
    /\ SpanEnd(i) <= Len(fed)
    /\ taken[i].data = SubSeq(fed, taken[i].pos + 1, SpanEnd(i))

\* C6: every extracted unit is a non-empty span of the fed stream that starts
\* at or after the end of every span extracted before it, and the units
\* yielded are those spans, once each and in that order.
C6_NeverReYielded ==
    LET Yield(e) == e.out = "yield"
        units == SelectSeq(taken, Yield)
    IN  /\ \A i \in DOMAIN taken : IsStreamSpan(i)
        /\ \A i, j \in DOMAIN taken : i < j => SpanEnd(i) <= taken[j].pos
        /\ Len(yielded) = Len(units)
        /\ \A k \in DOMAIN yielded : yielded[k].raw = units[k].data

C6_Witness ==
    /\ Drained
    /\ Len(yielded) >= 2
    /\ yielded[1].raw = yielded[2].raw

\* C7: a detection step never adds bytes to the buffer, and every step that
\* does not report "not ready" removes at least one byte, so that at most
\* Len(buf) steps separate a buffer from the end of the iteration.
C7_DetectionTerminates ==
    [][ last'.op = "next"
        => /\ Len(buf') <= Len(buf)
           /\ last'.kind # "none" => Len(buf') < Len(buf) ]_vars

C7_Witness ==
    /\ Drained
    /\ Len(taken) >= 4

\* C8: a sentence the decoder fails on was removed from the buffer before the
\* decoder ran: the failure ends the step with the exception, nothing is
\* yielded for it, every later span starts after it (its bytes reach the
\* decoder once), and the buffer holds exactly the fed bytes that follow the
\* spans removed so far.
C8_DecodeFailurePropagates ==
    /\ last.out = "raise" => (taken # <<>> /\ taken[Len(taken)].out = "raise")
    /\ \A i \in DOMAIN taken :
          taken[i].out = "raise" =>
              /\ taken[i].kind = "nmea"
              /\ IsStreamSpan(i)
              /\ \A j \in DOMAIN taken : j > i => SpanEnd(i) <= taken[j].pos
              /\ Len(yielded) = Cardinality({k \in DOMAIN taken : taken[k].out = "yield"})
              /\ buf = SubSeq(fed, Consumed + 1, Len(fed))

C8_Witness ==
    /\ Len(taken) >= 2
    /\ taken[1].out = "raise"
    /\ taken[2].out = "yield"
    /\ taken[2].kind = "nmea"
    /\ yielded = << [tag |-> "NMEASentence", raw |-> taken[2].data] >>

\* the checksum of section 4.1 after the first k bytes of m: a and b start
\* at 0, and each byte c gives a = (a + c) mod 256, then b = (b + a) mod 256
RECURSIVE Fletcher(_, _)
Fletcher(m, k) ==
    IF k = 0 THEN <<0, 0>>
    ELSE LET p == Fletcher(m, k - 1)
             a == (p[1] + m[k]) % 256
         IN  <<a, (p[2] + a) % 256>>

\* C9: serialise returns 0xB5 0x62, msg_id, the payload length as a
\* little-endian uint16, the payload, the checksum of those three and 0x10
\* 0x13, payload length + 10 bytes in all, and changes neither field of the
\* message.
C9_SerialiseLayout ==
    [][ wire' # wire
        => LET n == Len(payload)
           IN  /\ Len(wire') = n + 10
               /\ wire'[1] = 181 /\ wire'[2] = 98
               /\ SubSeq(wire', 3, 4) = msg_id
               /\ wire'[5] \in Byte /\ wire'[6] \in Byte
               /\ wire'[5] + 256 * wire'[6] = n
               /\ SubSeq(wire', 7, 6 + n) = payload
               /\ SubSeq(wire', 7 + n, 8 + n) = ubx_checksum(SubSeq(wire', 3, 6 + n))
               /\ SubSeq(wire', 9 + n, 10 + n) = <<16, 19>>
               /\ msg_id' = msg_id
               /\ payload' = payload ]_vars

C9_Witness ==
    /\ msg_id = <<6, 1>>
    /\ payload = <<171, 205>>
    /\ wire = <<181, 98, 6, 1, 2, 0, 171, 205, 129, 84, 16, 19>>

\* C10: ubx_checksum(msg) is the pair (a, b) of the two-accumulator checksum,
\* both accumulators are bytes after every byte of msg, the empty string
\* gives (0, 0) and 01 02 03 gives (06, 0A).
C10_ChecksumAlgorithm ==
    checksum # <<>> =>
        /\ checksum = Fletcher(msg, Len(msg))
        /\ \A k \in 0..Len(msg) :
              /\ ChecksumAcc(msg, k) \in Byte \X Byte
              /\ ChecksumAcc(msg, k) = Fletcher(msg, k)
        /\ msg = <<>> => checksum = <<0, 0>>
        /\ msg = <<1, 2, 3>> => checksum = <<6, 10>>

C10_Witness ==
    /\ msg = <<1, 2, 3>>
    /\ checksum = <<6, 10>>

\* the byte string m in reverse order
Reverse(m) == [k \in 1..Len(m) |-> m[Len(m) + 1 - k]]

\* every reordering of the byte string m
Reorderings(m) ==
    LET n == Len(m)
        perms == {f \in [1..n -> 1..n] : \A i, j \in 1..n : f[i] = f[j] => i = j}
    IN  {[k \in 1..n |-> m[f[k]]] : f \in perms}

\* C11: the checksum of a byte string is a function of the string and of the
\* order of its bytes: computing it again gives the same two bytes, 01 02 03
\* and its reverse have different checksums, and reordering a string changes
\* at most the second byte b, never the first byte a.
C11_OrderSensitive ==
    checksum # <<>> =>
        /\ checksum = ubx_checksum(msg)
        /\ msg = <<1, 2, 3>> => ubx_checksum(Reverse(msg)) # checksum
        /\ Reverse(msg) \in Reorderings(msg)
        /\ \A p \in Reorderings(msg) : ubx_checksum(p)[1] = checksum[1]

C11_Witness ==
    /\ msg = <<255, 2, 1>>
    /\ checksum # <<>>
    /\ ubx_checksum(Reverse(msg))[1] = checksum[1]
    /\ ubx_checksum(Reverse(msg))[2] # checksum[2]

\* the bytes of the first k spans removed, in removal order
RECURSIVE RemovedBytes(_)
RemovedBytes(k) ==
    IF k = 0 THEN <<>> ELSE RemovedBytes(k - 1) \o taken[k].data

IsPrefixOf(p, b) == Len(p) <= Len(b) /\ Take(b, Len(p)) = p

IsSuffixOf(p, b) == Len(p) <= Len(b) /\ Drop(b, Len(b) - Len(p)) = p

\* C12: no byte is lost or duplicated: after every step the spans removed so
\* far, in removal order, followed by the buffer are exactly the bytes fed so
\* far; a feed leaves the old buffer as the front of the new one, and a
\* detection step leaves the new buffer as the back of the old one, having
\* removed from the front exactly the span it records.
C12_ByteConservation ==
    [][/\ RemovedBytes(Len(taken))' \o buf' = fed'
       /\ last'.op = "feed" =>
             /\ IsPrefixOf(buf, buf')
             /\ Len(buf') - Len(buf) = Len(fed') - Len(fed)
             /\ taken' = taken
       /\ last'.op = "next" =>
             /\ IsSuffixOf(buf', buf)
             /\ fed' = fed
             /\ RemovedBytes(Len(taken))' \o buf' = RemovedBytes(Len(taken)) \o buf]_vars

C12_Witness ==
    /\ \E i \in DOMAIN taken : taken[i].kind = "skip"
    /\ \E i \in DOMAIN taken : taken[i].kind = "nmea"
    /\ Len(taken) >= 3
    /\ buf # <<>>
    /\ source # <<>>

\* The spans removed from a buffer holding b, and the buffer left, when
\* _next_msg is called until it returns None and nothing is fed meanwhile.
RECURSIVE DrainAll(_)
DrainAll(b) ==
    LET r == next_msg(b)
    IN  IF r.kind = "none" THEN [spans |-> <<>>, buf |-> b]
        ELSE LET rest == DrainAll(r.buf)
             IN  [spans |-> <<[kind |-> r.kind, data |-> r.c]>> \o rest.spans,
                  buf |-> rest.buf]

\* the spans removed so far, without the bookkeeping of when and how
Spans == [i \in DOMAIN taken |-> [kind |-> taken[i].kind, data |-> taken[i].data]]

\* C13: the way the stream is cut into chunks, and how often detection runs
\* between the feeds, does not show in what is removed: at every moment the
\* spans removed so far are the first spans of the one-chunk run on the whole
\* stream, and once the stream is fed and the iteration has ended the spans
\* and the buffer left are those of the one-chunk run.
C13_ChunkingIndependence ==
    LET whole == DrainAll(Stream)
    IN  /\ IsPrefixOf(Spans, whole.spans)
        /\ source = <<>> /\ Drained => Spans = whole.spans /\ buf = whole.buf

C13_Witness ==
    /\ source = <<>>
    /\ Drained
    /\ Len(taken) >= 3
    /\ buf # <<>>
    /\ \E i \in DOMAIN taken : taken[i].kind = "skip"

\* the offsets at which a marker starts in b
MarkerOffsets(b) ==
    {i \in 0..(Len(b) - 1) :
        \/ b[i + 1] = DOLLAR
        \/ i + 2 <= Len(b) /\ b[i + 1] = SYNC1 /\ b[i + 2] = SYNC2}

StartsWithMarker(b) == 0 \in MarkerOffsets(b)

\* C14: a detection step skips exactly when the buffer holds a marker but
\* none at offset 0; it then removes exactly the bytes before the earliest
\* marker, so the buffer left begins with '$' or B5 62, and the step before
\* it, if a detection step, was not a skip; no two spans removed one after
\* the other are both skipped noise.
C14_SkipToEarliestMarker ==
    [][last'.op = "next" =>
          /\ last'.kind = "skip" <=>
                MarkerOffsets(buf) # {} /\ ~StartsWithMarker(buf)
          /\ last'.kind = "skip" =>
                /\ Len(taken') = Len(taken) + 1
                /\ taken'[Len(taken')].data = Take(buf, Min(MarkerOffsets(buf)))
                /\ buf' = Drop(buf, Min(MarkerOffsets(buf)))
                /\ StartsWithMarker(buf')
                /\ ~(last.op = "next" /\ last.kind = "skip")
                /\ taken # <<>> => taken[Len(taken)].kind # "skip"]_vars

C14_Witness ==
    /\ last.op = "next"
    /\ last.kind = "skip"
    /\ Take(buf, 2) = <<SYNC1, SYNC2>>
    /\ Find(buf, <<DOLLAR>>) > 0
    /\ Len(taken) >= 2

\* the offsets at which CR LF starts in b
CrLfOffsets(b) ==
    {i \in 0..(Len(b) - 2) : b[i + 1] = CR /\ b[i + 2] = LF}

\* C15: a detection step takes the NMEA branch only with '$' at offset 0 of
\* the buffer, and removes then exactly the bytes up to and including the
\* first CR LF; the span it hands to the decoder begins with '$', ends with
\* CR LF and has no CR LF before that one.
C15_NmeaSpanShape ==
    [][last'.op = "next" /\ last'.kind = "nmea" =>
          /\ buf # <<>> /\ buf[1] = DOLLAR
          /\ CrLfOffsets(buf) # {}
          /\ Len(taken') = Len(taken) + 1
          /\ LET span == taken'[Len(taken')].data
             IN  /\ span = Take(buf, Min(CrLfOffsets(buf)) + 2)
                 /\ buf' = Drop(buf, Len(span))
                 /\ span[1] = DOLLAR
                 /\ CrLfOffsets(span) = {Len(span) - 2}]_vars

C15_Witness ==
    /\ last.op = "next"
    /\ last.kind = "nmea"
    /\ Len(taken[Len(taken)].data) >= 4
    /\ CrLfOffsets(buf) # {}

\* C16: what serialise() writes is not what the demultiplexer reads back:
\* when the stream is serialise(m) for a message m with a two-byte id and a
\* payload of n bytes, fed to an empty demultiplexer and drained, exactly one
\* unit is yielded, the first n + 8 bytes of serialise(m), and the two
\* trailer bytes 10 13 stay in the buffer.
C16_SerialiseThenParse ==
    source = <<>> /\ Drained =>
        \A id \in MsgIds, pl \in Payloads \cup {LongPayload} :
            Len(Stream) = Len(pl) + 10 /\ Stream = serialise(id, pl) =>
                /\ yielded = <<[tag |-> "bytes", raw |-> Take(Stream, Len(pl) + 8)]>>
                /\ Len(taken) = 1
                /\ buf = <<16, 19>>

C16_Witness ==
    /\ source = <<>>
    /\ Drained
    /\ Len(fed) = 12
    /\ fed \in Serialised
    /\ Len(yielded) = 1
    /\ buf = <<16, 19>>

\* the three shapes of a buffer from which nothing can be extracted
NoMarkerShape(b) == MarkerOffsets(b) = {}

OpenSentenceShape(b) ==
    /\ b # <<>>
    /\ b[1] = DOLLAR
    /\ CrLfOffsets(b) = {}

OpenFrameShape(b) ==
    /\ Len(b) >= 2
    /\ b[1] = SYNC1
    /\ b[2] = SYNC2
    /\ \/ Len(b) < 6
       \/ Len(b) < b[5] + 256 * b[6] + 8

\* C17: when a get_msgs iteration has ended, the buffer has exactly one of
\* the three not-ready shapes: no marker at all, a '$' at the front with no
\* CR LF after it, or B5 62 at the front with fewer than 6 bytes or fewer
\* than the declared length plus 8; no complete unit is left at the front.
C17_ExhaustionLeavesNothing ==
    Drained =>
        Cardinality({shape \in {"noise", "sentence", "frame"} :
            \/ shape = "noise" /\ NoMarkerShape(buf)
            \/ shape = "sentence" /\ OpenSentenceShape(buf)
            \/ shape = "frame" /\ OpenFrameShape(buf)}) = 1

C17_Witness ==
    /\ Drained
    /\ OpenSentenceShape(buf)
    /\ Len(buf) >= 2
    /\ taken # <<>>
    /\ taken[Len(taken)].kind = "ubx"

\* C18: the unit at the front of the buffer blocks everything behind it: a
\* detection step on a buffer that begins with B5 62 and holds fewer bytes
\* than the frame needs, or that begins with '$' and holds no CR LF, returns
\* None, yields nothing and removes nothing, whatever complete sentences or
\* frames are buffered behind.
C18_HeadOfLineBlocking ==
    [][(OpenFrameShape(buf) \/ OpenSentenceShape(buf)) /\ last'.op = "next" =>
          /\ last'.kind = "none"
          /\ last'.out = "end"
          /\ buf' = buf
          /\ taken' = taken
          /\ yielded' = yielded]_vars

\* an incomplete frame at the front, two complete sentences behind it
C18_Witness ==
    /\ Drained
    /\ OpenFrameShape(buf)
    /\ Len(buf) >= 6
    /\ Cardinality(CrLfOffsets(buf)) = 2
    /\ \E i \in MarkerOffsets(buf) : buf[i + 1] = DOLLAR /\ i < Min(CrLfOffsets(buf))
    /\ taken = <<>>

\* an unterminated sentence at the front, a complete frame behind it
C18_WitnessSentence ==
    /\ Drained
    /\ OpenSentenceShape(buf)
    /\ \E i \in 1..(Len(buf) - 1) : Drop(buf, i) \in Frames
    /\ taken = <<>>

====
